---- MODULE Spec2Model ----
(***************************************************************************)
(* Backup / restore pipeline of the box management server                  *)
(* (server/routes.ts, server/db.ts, server/storage.ts).                    *)
(*                                                                         *)
(* State: the file system (data/ and uploads/), the SQLite connection of    *)
(* the process, the in-flight backup and restore requests, and the event   *)
(* loop (which handler is running synchronously).                          *)
(***************************************************************************)
EXTENDS Integers, Sequences, FiniteSets, TLC

(* ------------------------------ bounds --------------------------------- *)
NumRestores == 2
NumBackups == 2
MaxWrites == 2
MaxClock == 1
MaxRequests == 3

Restores == 1..NumRestores
Backups == 1..NumBackups

VARIABLES
  fs,        \* the file system: path (sequence of segments) -> content
  conn,      \* the process-wide SQLite connection (db.ts `sqlite`)
  rs,        \* restore requests: the handler's locals and position
  bk,        \* backup requests: the handler's locals and the archiver's queue
  running,   \* the handler running synchronously on the event loop (0: none)
  now,       \* Date.now()
  orphan,    \* unlinked database files the connection still holds open
  nWrites,   \* number of CRUD writes so far (bounded by MaxWrites)
  store      \* the records of the store as the CRUD routes see them

vars == <<fs, conn, orphan, rs, bk, running, now, nWrites, store>>

(* ----------------------------- file contents --------------------------- *)
Dir == [t |-> "dir", v |-> 0]
Blob(x) == [t |-> "blob", v |-> x]
MainFile(pages) == [t |-> "db", v |-> pages]
WalFile(frames) == [t |-> "wal", v |-> frames]

(* ------------------------------- paths --------------------------------- *)
DataDir == <<"data">>
DbPath == <<"data", "boxes.db">>
WalPath == <<"data", "boxes.db-wal">>
ShmPath == <<"data", "boxes.db-shm">>
UploadsPath == <<"uploads">>
ReceiptsDir == <<"uploads", "receipts">>
TempDir == <<"uploads", "temp">>
MetadataName == <<"backup-metadata.json">>

IsPrefix(p, q) == Len(p) <= Len(q) /\ SubSeq(q, 1, Len(p)) = p
Prefixes(p) == {SubSeq(p, 1, k) : k \in 1..Len(p)}
Suffix(p, q) == SubSeq(q, Len(p) + 1, Len(q))

\* path.join(base, name): the segments of name are appended to base and the
\* result is normalised: "" and "." are dropped, ".." removes the segment
\* before it.
RECURSIVE Normalize(_, _)
Normalize(acc, segs) ==
  IF segs = <<>> THEN acc
  ELSE LET s == Head(segs) IN
       IF s = "" \/ s = "." THEN Normalize(acc, Tail(segs))
       ELSE IF s = ".."
            THEN Normalize(IF acc = <<>> THEN acc ELSE SubSeq(acc, 1, Len(acc) - 1),
                           Tail(segs))
            ELSE Normalize(Append(acc, s), Tail(segs))

PathJoin(base, name) == Normalize(base, name)

(* ---------------------------- fs primitives ---------------------------- *)
Exists(f, p) == p \in DOMAIN f
IsDirectory(f, p) == Exists(f, p) /\ f[p].t = "dir"
Readdir(f, p) == {q \in DOMAIN f : Len(q) = Len(p) + 1 /\ IsPrefix(p, q)}
Under(f, p) == {q \in DOMAIN f : IsPrefix(p, q)}
Restrict(f, keep) == [q \in keep |-> f[q]]
Overlay(f, g) == [q \in DOMAIN f \cup DOMAIN g |-> IF q \in DOMAIN g THEN g[q] ELSE f[q]]

\* fs.mkdirSync(p, {recursive: true}); throws when a prefix is a file
MkdirOk(f, p) == \A q \in Prefixes(p) : ~Exists(f, q) \/ f[q].t = "dir"
MkdirP(f, p) == Overlay([q \in Prefixes(p) |-> Dir], f)

\* fs.rmSync(p, {recursive: true, force: true})
RmRf(f, p) == Restrict(f, DOMAIN f \ Under(f, p))

\* fs.copyFileSync(src, dst) / a completed write stream on dst
PutFile(f, p, c) == Overlay(f, [q \in {p} |-> c])

\* fs.cpSync(src, dst, {recursive: true}) and fs.copyFileSync for a file
CpR(f, src, dst) ==
  Overlay(f, [q \in {dst \o Suffix(src, s) : s \in Under(f, src)} |->
                f[src \o Suffix(dst, q)]])

(* --------------------------- the SQLite store --------------------------- *)
\* Pages of the main file, one per table.  A WAL frame is a page image.
BoxIds == {"b1", "b2"}
ItemIds == {"i1", "i2"}
EmptyPages == [boxes |-> {}, items |-> {}]
Frame(page, val) == [page |-> page, val |-> val]

\* Replaying WAL frames over the pages of the main file
RECURSIVE Replay(_, _)
Replay(pages, frames) ==
  IF frames = <<>> THEN pages
  ELSE Replay([pages EXCEPT ![Head(frames).page] = Head(frames).val], Tail(frames))

\* The committed state a connection opened on the files main/wal reads
Recover(f) ==
  Replay(f[DbPath].v, IF Exists(f, WalPath) /\ f[WalPath].t = "wal"
                      THEN f[WalPath].v ELSE <<>>)

IsDatabase(f) == Exists(f, DbPath) /\ f[DbPath].t = "db"

\* The files the connection reads and writes: the live paths, or the unlinked
\* files it opened before they were removed from the data directory.
ConnFiles == IF conn.bound = "live" THEN fs ELSE orphan

\* What every storage operation (db.select) reads
StoreState == Recover(ConnFiles)

\* A committed write transaction appends its page images to the WAL; when the
\* whole WAL has been checkpointed the writer restarts it from the beginning.
CommitInto(f, frames) ==
  LET old == IF Exists(f, WalPath) /\ f[WalPath].t = "wal" THEN f[WalPath].v ELSE <<>>
      restart == conn.backfill = Len(old)
  IN PutFile(PutFile(f, WalPath, WalFile(IF restart THEN frames ELSE old \o frames)),
             ShmPath, Blob("shm"))

BackfillAfterCommit(f) ==
  LET old == IF Exists(f, WalPath) /\ f[WalPath].t = "wal" THEN f[WalPath].v ELSE <<>>
  IN IF conn.backfill = Len(old) THEN 0 ELSE conn.backfill

\* base: the file system the handler has produced so far in this step
CommitOn(base, frames) ==
  /\ conn.usable
  /\ IF conn.bound = "live"
     THEN fs' = CommitInto(base, frames) /\ UNCHANGED orphan
     ELSE fs' = base /\ orphan' = CommitInto(orphan, frames)
  /\ conn' = [conn EXCEPT !.backfill = BackfillAfterCommit(ConnFiles)]

Commit(frames) == CommitOn(fs, frames)

\* the journal removed instead of merged
CheckpointIntoRemovingWal(f) == Restrict(f, DOMAIN f \ {WalPath})
\* sqlite.pragma('wal_checkpoint(FULL)'): every WAL frame is written into the
\* main file; the WAL file keeps its frames until the next writer restarts it.
CheckpointInto(f) ==
  IF Exists(f, WalPath) /\ f[WalPath].t = "wal"
  THEN PutFile(f, DbPath, MainFile(Recover(f)))
  ELSE f

WalLen(f) == IF Exists(f, WalPath) /\ f[WalPath].t = "wal" THEN Len(f[WalPath].v) ELSE 0

(* ------------------------- storage operations -------------------------- *)
NoReceipt == "none"
ReceiptNames == {"r1.pdf"}
Item(i, b, r) == [id |-> i, boxId |-> b, receipt |-> r]

\* History kept for the backups in progress: every committed state the live
\* store has had since the backup began.
Noted(f) ==
  [b \in Backups |->
     IF bk[b].pc = "streaming" /\ IsDatabase(f)
     THEN [bk[b] EXCEPT !.seen = @ \cup {Recover(f)}]
     ELSE bk[b]]

\* A step that changes the live store or the uploads tree; but: the backup
\* whose own archive is being restored by that step (0: none)
Dirtied(f, but) ==
  [b \in Backups |-> IF b = but THEN Noted(f)[b] ELSE [Noted(f)[b] EXCEPT !.clean = FALSE]]

CanWrite == running = 0 /\ nWrites < MaxWrites

\* DatabaseStorage.createBox
CreateBox(b) ==
  /\ CanWrite
  /\ b \notin StoreState.boxes
  /\ Commit(<<Frame("boxes", StoreState.boxes \cup {b})>>)
  /\ nWrites' = nWrites + 1
  /\ bk' = Dirtied(fs', 0)
  /\ UNCHANGED <<rs, running, now>>
  /\ UNCHANGED store

\* DatabaseStorage.createItem (the items table references boxes(id))
CreateItem(i, b) ==
  /\ CanWrite
  /\ b \in StoreState.boxes
  /\ \A it \in StoreState.items : it.id # i
  /\ Commit(<<Frame("items", StoreState.items \cup {Item(i, b, NoReceipt)})>>)
  /\ nWrites' = nWrites + 1
  /\ bk' = Dirtied(fs', 0)
  /\ UNCHANGED <<rs, running, now>>
  /\ UNCHANGED store

\* the items are left as they are
CascadeItemsNone(its, b) == its
\* box_id REFERENCES boxes (id) ON DELETE CASCADE: the rows of items that
\* reference a deleted box are deleted in the same statement
CascadeItems(its, b) == {it \in its : it.boxId # b}

\* DatabaseStorage.deleteBox (ON DELETE CASCADE removes the box's items)
DeleteBox(b) ==
  /\ CanWrite
  /\ b \in StoreState.boxes
  /\ Commit(<<Frame("boxes", StoreState.boxes \ {b}),
              Frame("items", CascadeItems(StoreState.items, b))>>)
  /\ nWrites' = nWrites + 1
  /\ bk' = Dirtied(fs', 0)
  /\ UNCHANGED <<rs, running, now>>
  /\ UNCHANGED store

\* POST /api/items/:id/receipt: multer stores the file, updateItem records it
UploadReceipt(i, name) ==
  /\ CanWrite
  /\ \E it \in StoreState.items : it.id = i
  /\ LET its == {IF it.id = i THEN [it EXCEPT !.receipt = name] ELSE it :
                   it \in StoreState.items}
     IN CommitOn(PutFile(MkdirP(fs, ReceiptsDir), ReceiptsDir \o <<name>>, Blob(name)),
                 <<Frame("items", its)>>)
  /\ nWrites' = nWrites + 1
  /\ bk' = Dirtied(fs', 0)
  /\ UNCHANGED <<rs, running, now>>
  /\ UNCHANGED store

(* ------------------------------ archives ------------------------------- *)
FileEntry(name, data) == [name |-> name, dir |-> FALSE, data |-> data]
DirEntry(name) == [name |-> name, dir |-> TRUE, data |-> Dir]
\* of: the backup request that produced the archive (0: made by hand);
\* size: the length of the uploaded file in bytes
Zip(entries) == [kind |-> "zip", entries |-> entries, of |-> 0, size |-> 4096]
NotZip == [kind |-> "garbage", entries |-> <<>>, of |-> 0, size |-> 4096]
NoFile == [kind |-> "nofile", entries |-> <<>>, of |-> 0, size |-> 0]
Download(b) == [kind |-> "zip", entries |-> bk[b].archive, of |-> b, size |-> 4096]

\* limits: { fileSize: 100 * 1024 * 1024 }
FileSizeLimit == 100 * 1024 * 1024
AcceptedByMulterNoLimit(a) == TRUE
\* multer stops the upload when the file grows past the limit, removes what
\* it wrote under uploads/temp and passes the error on: the route's handler
\* is not called
AcceptedByMulter(a) == a.size <= FileSizeLimit

Metadata == Blob("metadata")
BadJson == Blob("not json")

RECURSIVE SetToSeq(_)
SetToSeq(S) ==
  IF S = {} THEN <<>>
  ELSE LET x == CHOOSE y \in S : TRUE IN <<x>> \o SetToSeq(S \ {x})

EntryNames(a) == {a.entries[k].name : k \in 1..Len(a.entries)}

(* ---------------------- POST /api/backup/full -------------------------- *)
\* seen, clean and snap are history: the committed states of the live store
\* since the backup began, whether the live store and the uploads tree are
\* untouched since then, and what they were when it began (hasDb: whether
\* data/boxes.db existed).
NoSnap == [usable |-> FALSE, hasDb |-> FALSE, state |-> EmptyPages, files |-> <<>>]
IdleBackup == [pc |-> "idle", ckpt |-> "none", queue |-> <<>>, archive |-> <<>>,
               seen |-> {}, clean |-> FALSE, snap |-> NoSnap, status |-> 0]

AttachmentFiles(f) ==
  Restrict(f, {q \in Under(f, UploadsPath) : ~IsPrefix(TempDir, q) /\ f[q].t # "dir"})

\* The synchronous part of the handler: the checkpoint attempt (a failure is
\* caught and logged), the existence tests that decide which files are queued,
\* and finalize().  archiver reads the queued sources later, one at a time.
QueueFor(f) ==
  (IF Exists(f, DbPath)
   THEN <<DbPath>>
        \o (IF Exists(f, WalPath) THEN <<WalPath>> ELSE <<>>)
        \o (IF Exists(f, ShmPath) THEN <<ShmPath>> ELSE <<>>)
   ELSE <<>>)
  \o (IF Exists(f, UploadsPath) THEN <<UploadsPath>> ELSE <<>>)
  \o <<MetadataName>>

BackupStart(b, ckptOk) ==
  /\ running = 0
  /\ bk[b].pc = "idle"
  /\ \A o \in Backups : o < b => bk[o].pc # "idle"
  /\ IF ckptOk /\ conn.usable
     THEN /\ IF conn.bound = "live"
             THEN fs' = CheckpointInto(fs) /\ UNCHANGED orphan
             ELSE orphan' = CheckpointInto(orphan) /\ UNCHANGED fs
          /\ conn' = [conn EXCEPT !.backfill = WalLen(ConnFiles)]
     ELSE UNCHANGED <<fs, orphan, conn>>
  /\ bk' = [bk EXCEPT ![b] =
              [pc |-> "streaming",
               ckpt |-> IF ckptOk /\ conn.usable THEN "ok" ELSE "failed",
               queue |-> QueueFor(fs'),
               archive |-> <<>>,
               seen |-> IF IsDatabase(fs') THEN {Recover(fs')} ELSE {},
               clean |-> TRUE,
               snap |-> [usable |-> conn.usable,
                         hasDb |-> Exists(fs, DbPath),
                         state |-> IF conn.usable THEN StoreState ELSE EmptyPages,
                         files |-> AttachmentFiles(fs)],
               status |-> 0]]
  /\ UNCHANGED <<rs, running, now, nWrites>>
  /\ UNCHANGED store

\* The entries archiver produces for one queued source, read at this instant
EntriesOf(f, src) ==
  IF src = MetadataName THEN <<FileEntry(MetadataName, Metadata)>>
  ELSE IF src = UploadsPath
       THEN SetToSeq({[name |-> q, dir |-> f[q].t = "dir", data |-> f[q]] :
                        q \in Under(f, UploadsPath) \ {UploadsPath}})
       ELSE IF Exists(f, src) THEN <<FileEntry(src, f[src])>> ELSE <<>>

BackupRead(b) ==
  /\ running = 0
  /\ bk[b].pc = "streaming"
  /\ bk[b].queue # <<>>
  /\ bk' = [bk EXCEPT ![b].archive = @ \o EntriesOf(fs, Head(bk[b].queue)),
                      ![b].queue = Tail(@)]
  /\ UNCHANGED <<fs, conn, orphan, rs, running, now, nWrites>>
  /\ UNCHANGED store

\* archive.finalize() resolves: the response is complete
BackupFinish(b) ==
  /\ running = 0
  /\ bk[b].pc = "streaming"
  /\ bk[b].queue = <<>>
  /\ bk' = [bk EXCEPT ![b].pc = "done", ![b].status = 200]
  /\ UNCHANGED <<fs, conn, orphan, rs, running, now, nWrites>>
  /\ UNCHANGED store
(* ---------------------- POST /api/restore/full ------------------------- *)
\* steps and alone are history: the steps the handler has completed, and
\* whether no other restore request was in progress at any time during it.
IdleRestore == [pc |-> "idle", upload |-> NoFile, file |-> <<>>, staging |-> <<>>,
                idx |-> 0, status |-> 0, steps |-> <<>>, alone |-> TRUE]
InProgress(r) == rs[r].pc \notin {"idle", "done", "crashed"}

\* multer's destination file of request r (a random name under uploads/temp)
UploadFile(r) == TempDir \o <<"upload-" \o ToString(r)>>
\* path.join(cwd, 'uploads', 'temp', `extract-${Date.now()}`)
TempExtractPath(t) == TempDir \o <<"extract-" \o ToString(t)>>

ValidFileNameUnchecked(name) == name # <<>>
\* yauzl's check of an entry's file name (decodeStrings is left at its
\* default): absolute paths and names with a ".." segment are errors.
ValidFileName(name) ==
  /\ name # <<>>
  /\ Head(name) # ""
  /\ \A k \in 1..Len(name) : name[k] # ".."

\* catch (error): the uploaded file is removed and the request answered 500.
\* tempExtractPath is not touched.
Catch(r, f, step) ==
  /\ fs' = RmRf(f, rs[r].file)
  /\ rs' = [rs EXCEPT ![r].pc = "done", ![r].status = 500,
                      ![r].steps = Append(@, step)]
  /\ running' = 0

\* backupUpload.single('backup') and the handler up to yauzl.open
\* Requests are numbered in their order of arrival.
RestoreStart(r, a) ==
  /\ running = 0
  /\ rs[r].pc = "idle"
  /\ \A o \in Restores : o < r => rs[o].pc # "idle"
  /\ IF ~AcceptedByMulter(a)
     THEN /\ rs' = [rs EXCEPT ![r].pc = "done", ![r].status = 500, ![r].upload = a,
                              ![r].steps = <<"upload-rejected">>]
          /\ UNCHANGED fs
     ELSE IF a.kind = "nofile"
     THEN /\ rs' = [rs EXCEPT ![r].pc = "done", ![r].status = 400]
          /\ UNCHANGED fs
     ELSE /\ fs' = MkdirP(PutFile(MkdirP(fs, TempDir), UploadFile(r), Blob("upload")),
                          TempExtractPath(now))
          /\ rs' = [q \in Restores |->
                     IF q = r
                     THEN [pc |-> "extracting", upload |-> a,
                           file |-> UploadFile(r),
                           staging |-> TempExtractPath(now),
                           idx |-> 1, status |-> 0, steps |-> <<>>,
                           alone |-> \A o \in Restores \ {r} : ~InProgress(o)]
                     ELSE IF InProgress(q) THEN [rs[q] EXCEPT !.alone = FALSE]
                     ELSE rs[q]]
  /\ UNCHANGED <<conn, orphan, bk, running, now, nWrites>>
  /\ UNCHANGED store

\* One callback of the extraction: the result of yauzl.open, one 'entry'
\* event with the write of its file, or 'end'.  Other requests run between
\* two callbacks.
ExtractEntry(f, staging, e) ==
  IF e.dir THEN MkdirP(f, PathJoin(staging, e.name))
  ELSE LET filePath == PathJoin(staging, e.name)
       IN PutFile(MkdirP(f, SubSeq(filePath, 1, Len(filePath) - 1)), filePath, e.data)

\* mkdirSync and createWriteStream succeed: no prefix of the target is a file
\* and a file is not written over a directory
ExtractOk(f, staging, e) ==
  LET target == PathJoin(staging, e.name)
  IN /\ target # <<>>
     /\ MkdirOk(f, IF e.dir THEN target ELSE SubSeq(target, 1, Len(target) - 1))
     /\ e.dir \/ ~IsDirectory(f, target)

\* zipfile 'end' resolves the promise the handler awaits: the rest of the
\* handler has no await and holds the event loop until it has responded
AfterExtractionYields(r) == 0
AfterExtraction(r) == r

RestoreExtract(r) ==
  /\ running = 0
  /\ rs[r].pc = "extracting"
  /\ LET a == rs[r].upload
         k == rs[r].idx
     IN IF a.kind # "zip"
        THEN Catch(r, fs, "extract-failed")
        ELSE IF k > Len(a.entries)
        THEN /\ rs' = [rs EXCEPT ![r].pc = "validate", ![r].steps = Append(@, "extract")]
             /\ running' = AfterExtraction(r)
             /\ UNCHANGED fs
        ELSE IF ~ValidFileName(a.entries[k].name)
        THEN Catch(r, fs, "extract-failed")
        ELSE IF ~ExtractOk(fs, rs[r].staging, a.entries[k])
        THEN \* the exception is thrown inside an event callback: nothing
             \* catches it and the process stops
             /\ rs' = [rs EXCEPT ![r].pc = "crashed"]
             /\ running' = r
             /\ UNCHANGED fs
        ELSE /\ fs' = ExtractEntry(fs, rs[r].staging, a.entries[k])
             /\ rs' = [rs EXCEPT ![r].idx = k + 1]
             /\ UNCHANGED running
  /\ bk' = Noted(fs')
  /\ UNCHANGED <<conn, orphan, now, nWrites>>
  /\ UNCHANGED store

\* Validate backup metadata: JSON.parse of backup-metadata.json when present
RestoreValidate(r) ==
  /\ running = r
  /\ rs[r].pc = "validate"
  /\ LET metadataPath == PathJoin(rs[r].staging, MetadataName)
     IN IF Exists(fs, metadataPath) /\ fs[metadataPath] # Metadata
        THEN Catch(r, fs, "validate-failed")
        ELSE /\ rs' = [rs EXCEPT ![r].pc = "replaceDb", ![r].steps = Append(@, "validate")]
             /\ UNCHANGED <<fs, running>>
  /\ UNCHANGED <<conn, orphan, bk, now, nWrites>>
  /\ UNCHANGED store
\* Restore database files: skipped when the staging directory has no
\* data/boxes.db.  The three live files are removed, then the staged ones are
\* copied; copyFileSync throws when its source is a directory.
Unlinked(f) == Restrict(f, {DbPath, WalPath, ShmPath} \cap DOMAIN f)
\* only the main file removed
RemoveDbFilesKeepingJournal(f) == Restrict(f, DOMAIN f \ {DbPath})
RemoveDbFiles(f) == Restrict(f, DOMAIN f \ {DbPath, WalPath, ShmPath})

CopyFile(f, src, dst) == PutFile(f, dst, f[src])
CopyIfStagedSkipped(f, src, dst) == f
CopyIfStaged(f, src, dst) == IF Exists(f, src) THEN CopyFile(f, src, dst) ELSE f
CopyThrows(f, src) == Exists(f, src) /\ f[src].t = "dir"

\* the statement that follows the copies inside the same if block
AfterReplaceDbSkipsReconnect == "replaceUploads"
AfterReplaceDb == "reconnect"

RestoreReplaceDb(r) ==
  /\ running = r
  /\ rs[r].pc = "replaceDb"
  /\ LET backupDbPath == PathJoin(rs[r].staging, DbPath)
         backupWalPath == PathJoin(rs[r].staging, WalPath)
         backupShmPath == PathJoin(rs[r].staging, ShmPath)
         removed == RemoveDbFiles(MkdirP(fs, DataDir))
         withDb == CopyFile(removed, backupDbPath, DbPath)
         withWal == CopyIfStaged(withDb, backupWalPath, WalPath)
         withShm == CopyIfStaged(withWal, backupShmPath, ShmPath)
     IN IF ~Exists(fs, backupDbPath)
        THEN /\ rs' = [rs EXCEPT ![r].pc = "replaceUploads"]
             /\ UNCHANGED <<fs, conn, orphan, running, bk>>
        ELSE /\ IF conn.bound = "live"
                THEN orphan' = Unlinked(fs) /\ conn' = [conn EXCEPT !.bound = "orphan"]
                ELSE UNCHANGED <<orphan, conn>>
             /\ IF CopyThrows(fs, backupDbPath) THEN Catch(r, removed, "replaceDb-failed")
                ELSE IF CopyThrows(fs, backupWalPath) THEN Catch(r, withDb, "replaceDb-failed")
                ELSE IF CopyThrows(fs, backupShmPath) THEN Catch(r, withWal, "replaceDb-failed")
                ELSE /\ fs' = withShm
                     /\ rs' = [rs EXCEPT ![r].pc = AfterReplaceDb,
                                         ![r].steps = Append(@, "replaceDb")]
                     /\ UNCHANGED running
             /\ bk' = Dirtied(fs', rs[r].upload.of)
  /\ UNCHANGED <<now, nWrites>>
  /\ UNCHANGED store

\* initializeDatabase(): CREATE TABLE IF NOT EXISTS on a database whose tables
\* exist changes nothing
InitializeDatabase(f) == f

\* DatabaseStorage.initializeSampleData: when the store has no box, the sample
\* boxes and items are inserted
SampleFrames ==
  <<Frame("boxes", {"b1"}),
    Frame("items", {[id |-> "i1", boxId |-> "b1", receipt |-> "mixer-receipt.pdf"]})>>

InitializeSampleData(f) ==
  IF Recover(f).boxes # {} THEN f
  ELSE PutFile(f, WalPath, WalFile(f[WalPath].v \o SampleFrames))

\* what the constructor runs
ReinitializeAsConstructor(f) == InitializeSampleData(InitializeDatabase(f))
\* DatabaseStorage.reinitialize
Reinitialize(f) == InitializeDatabase(f)

\* reconnectDatabase() and storage.reinitialize(): the old connection is
\* closed and a new one opened on data/boxes.db in WAL mode, then
\* initializeDatabase() runs CREATE TABLE IF NOT EXISTS.  Opening creates the
\* -wal and -shm files when they are missing; a file that is no database
\* makes the open throw.
OpenFiles(f) ==
  LET w == IF Exists(f, WalPath) /\ f[WalPath].t = "wal" THEN f[WalPath] ELSE WalFile(<<>>)
  IN PutFile(PutFile(f, WalPath, w), ShmPath, Blob("shm"))

\* the handle the process held before is kept
ReconnectDatabaseKeepsHandle(c, o) == [conn |-> c, orphan |-> o]
\* reconnectDatabase(): the old handle is closed, which releases the unlinked
\* files, and every component is given the handle opened on data/boxes.db
ReconnectDatabase(c, o) ==
  [conn |-> [bound |-> "live", backfill |-> 0, usable |-> TRUE], orphan |-> <<>>]

RestoreReconnect(r) ==
  /\ running = r
  /\ rs[r].pc = "reconnect"
  /\ IF IsDatabase(fs)
     THEN /\ conn' = ReconnectDatabase(conn, orphan).conn
          /\ orphan' = ReconnectDatabase(conn, orphan).orphan
          /\ fs' = Reinitialize(OpenFiles(fs))
          /\ rs' = [rs EXCEPT ![r].pc = "replaceUploads", ![r].steps = Append(@, "reconnect")]
          /\ UNCHANGED running
     ELSE /\ conn' = [bound |-> "live", backfill |-> 0, usable |-> FALSE]
          /\ orphan' = <<>>
          /\ Catch(r, fs, "reconnect-failed")
  /\ bk' = Dirtied(fs', rs[r].upload.of)
  /\ UNCHANGED <<now, nWrites>>
  /\ UNCHANGED store

\* Restore uploads directory: skipped when the staging directory has no
\* uploads entry.  Every entry of the live uploads directory except the temp
\* directory is removed, then every entry of the staged one is copied in.
ClearUploads(f) ==
  Restrict(f, {q \in DOMAIN f :
                 \A item \in Readdir(f, UploadsPath) :
                    IsPrefix(item, q) => (IsDirectory(f, item) /\ item = TempDir)})

RestoreReplaceUploads(r) ==
  /\ running = r
  /\ rs[r].pc = "replaceUploads"
  /\ LET backupUploadsPath == PathJoin(rs[r].staging, UploadsPath)
         cleared == ClearUploads(fs)
     IN IF ~Exists(fs, backupUploadsPath)
        THEN /\ rs' = [rs EXCEPT ![r].pc = "cleanup"]
             /\ UNCHANGED <<fs, running, bk>>
        ELSE /\ IF ~IsDirectory(fs, backupUploadsPath)
                THEN Catch(r, cleared, "replaceUploads-failed")
                ELSE /\ fs' = CpR(cleared, backupUploadsPath, UploadsPath)
                     /\ rs' = [rs EXCEPT ![r].pc = "cleanup",
                                         ![r].steps = Append(@, "replaceUploads")]
                     /\ UNCHANGED running
             /\ bk' = Dirtied(fs', rs[r].upload.of)
  /\ UNCHANGED <<conn, orphan, now, nWrites>>
  /\ UNCHANGED store

\* Clean up temporary files
RestoreCleanup(r) ==
  /\ running = r
  /\ rs[r].pc = "cleanup"
  /\ fs' = RmRf(RmRf(fs, rs[r].file), rs[r].staging)
  /\ rs' = [rs EXCEPT ![r].pc = "respond", ![r].steps = Append(@, "cleanup")]
  /\ UNCHANGED <<conn, orphan, bk, running, now, nWrites>>
  /\ UNCHANGED store

\* res.json({ message: 'Restore completed successfully...' })
RestoreRespond(r) ==
  /\ running = r
  /\ rs[r].pc = "respond"
  /\ rs' = [rs EXCEPT ![r].pc = "done", ![r].status = 200]
  /\ running' = 0
  /\ UNCHANGED <<fs, conn, orphan, bk, now, nWrites>>
  /\ UNCHANGED store

\* The clock behind Date.now().  Readings that no request has observed are
\* skipped: they differ from the next one in nothing.
Tick ==
  /\ running = 0
  /\ now < MaxClock
  /\ \E r \in Restores : rs[r].pc # "idle" /\ rs[r].staging = TempExtractPath(now)
  /\ now' = now + 1
  /\ UNCHANGED <<fs, conn, orphan, rs, bk, running, nWrites>>
  /\ UNCHANGED store
(* ------------------- the records and the CRUD routes -------------------- *)
\* The tables as the storage layer reads and writes them, row by row.  kind
\* tells the two storage classes of the repository apart: "sqlite" is
\* DatabaseStorage behind the routes with locations and activity logs, "mem"
\* is MemStorage behind the routes of server/routes.ts.
Null == "null"
Box(id, location) == [id |-> id, location |-> location]
Row(id, boxId, receipt) == [id |-> id, boxId |-> boxId, receipt |-> receipt]
Location(id, name) == [id |-> id, name |-> name]
Log(id, action, entityType, entityId) ==
  [id |-> id, action |-> action, entityType |-> entityType, entityId |-> entityId]

Ids(rows) == {x.id : x \in rows}
Get(rows, id) == CHOOSE x \in rows : x.id = id

\* randomUUID(): a value that was not returned before
randomUUID(s) == "uuid-" \o ToString(s.uuid + 1)
Drawn(s) == [s EXCEPT !.uuid = @ + 1]

\* { ...row, ...updateData } and UPDATE ... SET: the fields of the update
\* replace those of the row
Merge(row, data) ==
  [f \in DOMAIN row \cup DOMAIN data |-> IF f \in DOMAIN data THEN data[f] ELSE row[f]]
Replace(rows, id, data) == {IF x.id = id THEN Merge(x, data) ELSE x : x \in rows}

\* insertBoxSchema / insertItemSchema / insertLocationSchema .parse: the id is
\* omitted from the schema and an unknown key of the body is dropped
ParseKeepsId(body) == body
Parse(body) == [f \in DOMAIN body \ {"id"} |-> body[f]]

\* the items table references boxes(id); MemStorage has no such check
ForeignKeyOk(s, data) ==
  s.kind = "mem" \/ "boxId" \notin DOMAIN data \/ data.boxId \in Ids(s.boxes)

\* DatabaseStorage.logActivity; the routes of server/routes.ts log nothing
logActivityPerEntity(s, action, entityType, entityId) ==
  IF s.kind = "mem" THEN s
  ELSE [s EXCEPT
          !.logs = {x \in @ : x.entityId # entityId}
                     \cup {Log("log-" \o entityId, action, entityType, entityId)}]
logActivity(s, action, entityType, entityId) ==
  IF s.kind = "mem" THEN s
  ELSE [Drawn(s) EXCEPT
          !.logs = @ \cup {Log("log-" \o randomUUID(s), action, entityType, entityId)}]

createBox(s, data) ==
  [Drawn(s) EXCEPT !.boxes = @ \cup {Merge(data, [id |-> randomUUID(s)])}]
updateBox(s, id, data) == [s EXCEPT !.boxes = Replace(@, id, data)]
deleteBox(s, id) ==
  [s EXCEPT !.boxes = {x \in @ : x.id # id}, !.items = CascadeItems(@, id)]

createItem(s, data) ==
  [Drawn(s) EXCEPT !.items = @ \cup {Merge(data, [id |-> randomUUID(s)])}]
updateItem(s, id, data) == [s EXCEPT !.items = Replace(@, id, data)]
deleteItem(s, id) == [s EXCEPT !.items = {x \in @ : x.id # id}]

createLocation(s, data) ==
  [Drawn(s) EXCEPT
     !.locations = @ \cup {Location("location-" \o randomUUID(s), data.name)}]
updateLocation(s, id, data) == [s EXCEPT !.locations = Replace(@, id, [name |-> data.name])]
deleteLocation(s, id) == [s EXCEPT !.locations = {x \in @ : x.id # id}]

\* a value that JavaScript's filter(item => item.receiptFilename) keeps
Truthy(v) == v \notin {Null, ""}

\* getStats: DatabaseStorage counts the receipts with
\* WHERE receipt_filename IS NOT NULL, MemStorage with a filter on the value
getStats(s) ==
  [totalBoxes |-> Cardinality(s.boxes),
   totalItems |-> Cardinality(s.items),
   itemsWithReceipts |->
     IF s.kind = "sqlite" THEN Cardinality({i \in s.items : i.receipt # Null})
     ELSE Cardinality({i \in s.items : Truthy(i.receipt)})]

\* addBoxStats: the items of the box, and those of them with a receipt
addBoxStats(s, box) ==
  LET boxItems == {i \in s.items : i.boxId = box.id}
  IN Merge(box, [itemCount |-> Cardinality(boxItems),
                 withReceipts |-> Cardinality({i \in boxItems : Truthy(i.receipt)})])

getBoxes(s) == {addBoxStats(s, box) : box \in s.boxes}

\* the response closes the request
Answer(s, status) == [s EXCEPT !.status = status, !.requests = @ + 1]
CanRequest == store.requests < MaxRequests

\* what the requests carry
LocationNames == {"Kitchen", "Garage"}
Receipts == {Null, "", "r.pdf"}
BoxRefs == Ids(store.boxes) \cup {"no-such-box"}
ItemRefs == Ids(store.items) \cup {"no-such-item"}
LocationRefs == Ids(store.locations) \cup {"no-such-location"}

\* POST /api/boxes
PostBoxes(body) ==
  /\ CanRequest
  /\ LET created == createBox(store, Parse(body))
     IN store' = Answer(logActivity(created, "create", "box", randomUUID(store)), 201)
  /\ UNCHANGED <<fs, conn, orphan, rs, bk, running, now, nWrites>>

\* PUT /api/boxes/:id
PutBoxes(id, body) ==
  /\ CanRequest
  /\ IF id \notin Ids(store.boxes) THEN store' = Answer(store, 404)
     ELSE store' = Answer(logActivity(updateBox(store, id, Parse(body)), "update", "box",
                                      Merge(Get(store.boxes, id), Parse(body)).id),
                          200)
  /\ UNCHANGED <<fs, conn, orphan, rs, bk, running, now, nWrites>>

\* DELETE /api/boxes/:id
DeleteBoxes(id) ==
  /\ CanRequest
  /\ IF id \notin Ids(store.boxes) THEN store' = Answer(store, 404)
     ELSE store' = Answer(logActivity(deleteBox(store, id), "delete", "box", id), 200)
  /\ UNCHANGED <<fs, conn, orphan, rs, bk, running, now, nWrites>>

\* POST /api/items
PostItems(body) ==
  /\ CanRequest
  /\ IF ~ForeignKeyOk(store, Parse(body)) THEN store' = Answer(Drawn(store), 500)
     ELSE store' = Answer(logActivity(createItem(store, Parse(body)), "create", "item",
                                      randomUUID(store)),
                          201)
  /\ UNCHANGED <<fs, conn, orphan, rs, bk, running, now, nWrites>>

\* PUT /api/items/:id, and the receipt routes, which call updateItem with a
\* file name or with null
PutItems(id, body) ==
  /\ CanRequest
  /\ IF id \notin Ids(store.items) THEN store' = Answer(store, 404)
     ELSE IF ~ForeignKeyOk(store, Parse(body)) THEN store' = Answer(store, 500)
     ELSE store' = Answer(updateItem(store, id, Parse(body)), 200)
  /\ UNCHANGED <<fs, conn, orphan, rs, bk, running, now, nWrites>>

\* DELETE /api/items/:id
DeleteItems(id) ==
  /\ CanRequest
  /\ IF id \notin Ids(store.items) THEN store' = Answer(store, 404)
     ELSE store' = Answer(deleteItem(store, id), 200)
  /\ UNCHANGED <<fs, conn, orphan, rs, bk, running, now, nWrites>>

\* POST /api/locations
PostLocations(body) ==
  /\ CanRequest
  /\ store.kind = "sqlite"
  /\ LET created == createLocation(store, Parse(body))
     IN store' = Answer(logActivity(created, "create", "location",
                                    "location-" \o randomUUID(store)),
                        201)
  /\ UNCHANGED <<fs, conn, orphan, rs, bk, running, now, nWrites>>

\* PUT /api/locations/:id
PutLocations(id, body) ==
  /\ CanRequest
  /\ store.kind = "sqlite"
  /\ IF id \notin Ids(store.locations) THEN store' = Answer(store, 404)
     ELSE store' = Answer(logActivity(updateLocation(store, id, Parse(body)),
                                      "update", "location", id),
                          200)
  /\ UNCHANGED <<fs, conn, orphan, rs, bk, running, now, nWrites>>

\* DELETE /api/locations/:id
DeleteLocations(id) ==
  /\ CanRequest
  /\ store.kind = "sqlite"
  /\ IF id \notin Ids(store.locations) THEN store' = Answer(store, 404)
     ELSE store' = Answer(logActivity(deleteLocation(store, id), "delete", "location", id),
                          200)
  /\ UNCHANGED <<fs, conn, orphan, rs, bk, running, now, nWrites>>

\* The records the constructor of each storage class inserts
SampleBoxes == {Box("box-kitchen-storage", "Basement Shelf A-1")}
SampleItems ==
  {Row("item-stand-mixer", "box-kitchen-storage", "mixer-receipt.pdf"),
   Row("item-utensil-set", "box-kitchen-storage", Null)}
SampleLocations == {Location("location-kitchen", "Kitchen")}

DatabaseStart ==
  [kind |-> "sqlite", boxes |-> SampleBoxes, items |-> SampleItems,
   locations |-> SampleLocations, logs |-> {}, uuid |-> 0, requests |-> 0, status |-> 0,
   start |-> "first"]
MemStart ==
  [kind |-> "mem", boxes |-> SampleBoxes, items |-> SampleItems,
   locations |-> {}, logs |-> {}, uuid |-> 0, requests |-> 0, status |-> 0,
   start |-> "first"]

\* DatabaseStorage.initializeSampleData on the store the process finds: with
\* a box in the store it returns; without one it inserts the sample locations
\* under their fixed ids (a primary key that is taken makes the insert throw,
\* and the boxes and items are not reached), then the sample boxes and items.
\* start records what the last process start did.
initializeSampleData(s) ==
  IF s.boxes # {} THEN [s EXCEPT !.start = "kept"]
  ELSE IF Ids(SampleLocations) \cap Ids(s.locations) # {}
         THEN [s EXCEPT !.start = "insert-failed"]
  ELSE [s EXCEPT !.locations = @ \cup SampleLocations,
                 !.boxes = @ \cup SampleBoxes,
                 !.items = @ \cup SampleItems,
                 !.start = "seeded"]

\* the process is stopped and started again on the data directory it left:
\* the constructor of DatabaseStorage runs on the existing store
Restart ==
  /\ store.kind = "sqlite"
  /\ store' = initializeSampleData(store)
  /\ UNCHANGED <<fs, conn, orphan, rs, bk, running, now, nWrites>>

(* ----------------------------- initial state --------------------------- *)
\* The process has started on an empty data directory: db.ts has created
\* data/boxes.db in WAL mode, the DatabaseStorage constructor has created the
\* tables and inserted the sample data, routes.ts has created uploads/receipts
\* and uploads/temp.
FreshFs ==
  LET dirs == MkdirP(MkdirP(MkdirP(<<>>, DataDir), ReceiptsDir), TempDir)
      created == PutFile(PutFile(PutFile(dirs, DbPath, MainFile(EmptyPages)),
                                 WalPath, WalFile(<<>>)),
                         ShmPath, Blob("shm"))
  IN InitializeSampleData(InitializeDatabase(created))

\* the files, the connection and the requests of the backup and restore routes
InitFiles ==
  /\ fs = FreshFs
  /\ conn = [bound |-> "live", backfill |-> 0, usable |-> TRUE]
  /\ orphan = <<>>
  /\ rs = [r \in Restores |-> IdleRestore]
  /\ bk = [b \in Backups |-> IdleBackup]
  /\ running = 0
  /\ now = 0
  /\ nWrites = 0

Init == InitFiles /\ store = DatabaseStart

\* either storage class behind its routes
InitCrud == InitFiles /\ store \in {DatabaseStart, MemStart}

(* ------------------------------- uploads ------------------------------- *)
OtherPages == [boxes |-> {"b2"}, items |-> {}]
NoDbArchive ==
  Zip(<<FileEntry(<<"uploads", "receipts", "x.pdf">>, Blob("x")),
        FileEntry(MetadataName, Metadata)>>)
MetadataOnlyArchive == Zip(<<FileEntry(MetadataName, Metadata)>>)
DotDotArchive == Zip(<<FileEntry(<<"..", "..", "escape.txt">>, Blob("escape"))>>)
AbsoluteArchive == Zip(<<FileEntry(<<"", "etc", "escape.txt">>, Blob("escape"))>>)
BadMetadataArchive ==
  Zip(<<FileEntry(DbPath, MainFile(OtherPages)), FileEntry(MetadataName, BadJson)>>)
DbIsDirArchive == Zip(<<DirEntry(DbPath)>>)
JunkDbArchive == Zip(<<FileEntry(DbPath, Blob("junk"))>>)
\* fails on its metadata after data/boxes.db was staged as a directory
StaleStagingArchive == Zip(<<DirEntry(DbPath), FileEntry(MetadataName, BadJson)>>)
UploadsIsFileArchive == Zip(<<FileEntry(UploadsPath, Blob("u"))>>)
\* a file named data, then a file under data/: the second entry cannot be
\* written into the staging directory
ClashingArchive ==
  Zip(<<FileEntry(<<"data">>, Blob("d")), FileEntry(DbPath, MainFile(OtherPages))>>)
\* the backup of a store whose boxes were all deleted
EmptyStoreArchive ==
  Zip(<<FileEntry(DbPath, MainFile(EmptyPages)), FileEntry(MetadataName, Metadata)>>)
ValidArchive ==
  Zip(<<FileEntry(DbPath, MainFile(OtherPages)),
        DirEntry(TempDir),
        FileEntry(<<"uploads", "receipts", "r2.pdf">>, Blob("r2")),
        FileEntry(MetadataName, Metadata)>>)
\* a store copied with frames in its journal
WalArchive ==
  Zip(<<FileEntry(DbPath, MainFile(EmptyPages)),
        FileEntry(WalPath, WalFile(<<Frame("boxes", {"b2"})>>)),
        FileEntry(ShmPath, Blob("shm")),
        FileEntry(MetadataName, Metadata)>>)
\* a store with an item in each of two boxes
TwoBoxArchive ==
  Zip(<<FileEntry(DbPath, MainFile([boxes |-> {"b1", "b2"},
                                    items |-> {Item("i1", "b1", NoReceipt),
                                               Item("i2", "b2", NoReceipt)}])),
        FileEntry(MetadataName, Metadata)>>)
\* a valid archive padded beyond the limit of the upload
OversizedArchive == [ValidArchive EXCEPT !.size = FileSizeLimit + 1]

HandMade ==
  {NoFile, NotZip, NoDbArchive, MetadataOnlyArchive, DotDotArchive, AbsoluteArchive,
   BadMetadataArchive, DbIsDirArchive, JunkDbArchive, UploadsIsFileArchive, ValidArchive}

Downloads == {Download(b) : b \in {c \in Backups : bk[c].pc = "done"}}

(* ---------------------------- specifications --------------------------- *)
Write ==
  \/ \E b \in BoxIds : CreateBox(b)
  \/ \E i \in ItemIds, b \in BoxIds : CreateItem(i, b)
  \/ \E b \in BoxIds : DeleteBox(b)
  \/ \E i \in ItemIds, n \in ReceiptNames : UploadReceipt(i, n)

RestoreStep(r) ==
  \/ RestoreExtract(r)
  \/ RestoreValidate(r)
  \/ RestoreReplaceDb(r)
  \/ RestoreReconnect(r)
  \/ RestoreReplaceUploads(r)
  \/ RestoreCleanup(r)
  \/ RestoreRespond(r)

BackupStep(b) ==
  \/ \E ok \in BOOLEAN : BackupStart(b, ok)
  \/ BackupRead(b)
  \/ BackupFinish(b)

\* Restore requests with hand-made uploads
NextRestore ==
  \/ \E r \in Restores, a \in HandMade : RestoreStart(r, a)
  \/ \E r \in Restores : RestoreStep(r)
  \/ Tick

SpecRestore == Init /\ [][NextRestore]_vars

\* A restore that fails before the replacement, retries with valid archives
NextRetry ==
  \/ \E r \in Restores, a \in {StaleStagingArchive, EmptyStoreArchive, ValidArchive} :
        RestoreStart(r, a)
  \/ \E r \in Restores : RestoreStep(r)
  \/ Tick

SpecRetry == Init /\ [][NextRetry]_vars

\* Restores of valid archives while CRUD requests write
NextReconnect ==
  \/ \E r \in Restores, a \in {EmptyStoreArchive, ValidArchive} : RestoreStart(r, a)
  \/ \E r \in Restores : RestoreStep(r)
  \/ Write
  \/ Tick

SpecReconnect == Init /\ [][NextReconnect]_vars

\* Uploads that multer or the first lines of the handler turn away, and one
\* that passes
NextUpload ==
  \/ \E r \in Restores, a \in {OversizedArchive, NoFile, NotZip, ValidArchive} :
        RestoreStart(r, a)
  \/ \E r \in Restores : RestoreStep(r)
  \/ Tick

SpecUpload == Init /\ [][NextUpload]_vars

\* Restores of an archive with journal files and of one without
NextJournal ==
  \/ \E r \in Restores, a \in {WalArchive, ValidArchive} : RestoreStart(r, a)
  \/ \E r \in Restores : RestoreStep(r)
  \/ Tick

SpecJournal == Init /\ [][NextJournal]_vars

\* The CRUD routes on the records
BoxBodies ==
  {[location |-> l] : l \in LocationNames}
    \cup {[location |-> "Kitchen", id |-> i] : i \in Ids(store.boxes) \cup {"chosen-id"}}
ItemBodies ==
  {[boxId |-> b, receipt |-> r] : b \in BoxRefs, r \in Receipts}
ItemUpdates ==
  {[boxId |-> b] : b \in BoxRefs} \cup {[receipt |-> r] : r \in Receipts}
    \cup {[receipt |-> Null, id |-> i] : i \in Ids(store.items) \cup {"chosen-id"}}
LocationBodies == {[name |-> n] : n \in LocationNames}

NextCrud ==
  \/ \E body \in BoxBodies : PostBoxes(body)
  \/ \E id \in BoxRefs, body \in BoxBodies : PutBoxes(id, body)
  \/ \E id \in BoxRefs : DeleteBoxes(id)
  \/ \E body \in ItemBodies : PostItems(body)
  \/ \E id \in ItemRefs, body \in ItemUpdates : PutItems(id, body)
  \/ \E id \in ItemRefs : DeleteItems(id)
  \/ \E body \in LocationBodies : PostLocations(body)
  \/ \E id \in LocationRefs, body \in LocationBodies : PutLocations(id, body)
  \/ \E id \in LocationRefs : DeleteLocations(id)

SpecCrud == InitCrud /\ [][NextCrud]_vars

\* Restores of archives that can and cannot be extracted
NextExtract ==
  \/ \E r \in Restores, a \in {ClashingArchive, NotZip, ValidArchive} : RestoreStart(r, a)
  \/ \E r \in Restores : RestoreStep(r)
  \/ Tick

SpecExtract == Init /\ [][NextExtract]_vars

\* CRUD requests on the database, and process restarts between them
NextRestart ==
  \/ \E body \in BoxBodies : PostBoxes(body)
  \/ \E id \in BoxRefs, body \in BoxBodies : PutBoxes(id, body)
  \/ \E id \in BoxRefs : DeleteBoxes(id)
  \/ \E body \in ItemBodies : PostItems(body)
  \/ \E id \in ItemRefs, body \in ItemUpdates : PutItems(id, body)
  \/ \E id \in ItemRefs : DeleteItems(id)
  \/ \E body \in LocationBodies : PostLocations(body)
  \/ \E id \in LocationRefs : DeleteLocations(id)
  \/ Restart

SpecRestart == Init /\ [][NextRestart]_vars

\* CRUD requests on the store of the start and on a restored store that holds
\* two boxes with items
NextCascade ==
  \/ \E r \in Restores : RestoreStart(r, TwoBoxArchive)
  \/ \E r \in Restores : RestoreStep(r)
  \/ Write
  \/ Tick

SpecCascade == Init /\ [][NextCascade]_vars

\* Backups running while CRUD requests write
NextBackup ==
  \/ \E b \in Backups : BackupStep(b)
  \/ Write

SpecBackup == Init /\ [][NextBackup]_vars

\* Everything
Next ==
  \/ \E r \in Restores, a \in HandMade \cup Downloads : RestoreStart(r, a)
  \/ \E r \in Restores : RestoreStep(r)
  \/ \E b \in Backups : BackupStep(b)
  \/ Write
  \/ Tick

Spec == Init /\ [][Next]_vars
\* A backup and the restores of what it produced, among CRUD writes and
\* restores of an archive that fails in the middle of the database replacement
RoundTripBackups == 1
Interfering == {DbIsDirArchive}

NextRoundTrip ==
  \/ \E r \in Restores, a \in Interfering \cup Downloads : RestoreStart(r, a)
  \/ \E r \in Restores : RestoreStep(r)
  \/ \E b \in 1..RoundTripBackups : BackupStep(b)
  \/ Write
  \/ Tick

SpecRoundTrip == Init /\ [][NextRoundTrip]_vars

\* Restores among a backup and requests that create boxes
NextSync ==
  \/ \E r \in Restores : RestoreStart(r, ValidArchive)
  \/ \E r \in Restores : RestoreStep(r)
  \/ \E b \in 1..RoundTripBackups : BackupStep(b)
  \/ \E b \in BoxIds : CreateBox(b)
  \/ Tick

SpecSync == Init /\ [][NextSync]_vars

(* ------------------------------ properties ----------------------------- *)
Range(q) == {q[k] : k \in 1..Len(q)}
Count(q, x) == Cardinality({k \in 1..Len(q) : q[k] = x})
Position(q, x) == CHOOSE k \in 1..Len(q) : q[k] = x

HasDbEntry(a) == a.kind = "zip" /\ DbPath \in EntryNames(a)

LiveDbFiles(f) == Restrict(f, {DbPath, WalPath, ShmPath} \cap DOMAIN f)
AttachmentTree(f) == Restrict(f, {q \in Under(f, UploadsPath) : ~IsPrefix(TempDir, q)})

\* the step is one of restore request r
StepOf(r) == <<rs[r].pc, rs[r].idx>> # <<rs'[r].pc, rs'[r].idx>>

\* C1: no step of a restore whose upload is not a ZIP archive, or is a ZIP
\* archive without a data/boxes.db entry, changes the live database files or
\* the live uploads tree (outside the transient temp directory).
C1_InvalidArchiveNeverMutates ==
  [][\A r \in Restores :
       (StepOf(r) /\ rs'[r].upload.kind # "nofile" /\ ~HasDbEntry(rs'[r].upload))
       => /\ LiveDbFiles(fs') = LiveDbFiles(fs)
          /\ AttachmentTree(fs') = AttachmentTree(fs)]_vars

\* C2: when a restore request that created a staging directory sends its
\* response, that directory no longer exists.
C2_StagingRemovedAtResponse ==
  [][\A r \in Restores :
       (rs[r].status = 0 /\ rs'[r].status # 0 /\ rs'[r].staging # <<>>)
       => ~Exists(fs', rs'[r].staging)]_vars

StepOrder == <<"extract", "validate", "replaceDb", "reconnect", "replaceUploads", "cleanup">>
Failures == {"extract-failed", "validate-failed", "replaceDb-failed", "reconnect-failed",
             "replaceUploads-failed"}
Rank(x) == Position(StepOrder, x)

C5_ReconnectExactlyOnce ==
  \A r \in Restores : rs[r].status = 200 => Count(rs[r].steps, "reconnect") = 1

\* C6: a restore of an archive without data/boxes.db is never answered with
\* success
C6_MissingStoreIsAnError ==
  \A r \in Restores :
    (rs[r].upload.kind = "zip" /\ ~HasDbEntry(rs[r].upload)) => rs[r].status # 200

\* C8: while one restore is in progress no other restore is in progress
C8_OneRestoreAtATime ==
  \A r, o \in Restores : (r # o /\ InProgress(r)) => ~InProgress(o)

\* the paths a step creates or writes
Written(f, g) == {p \in DOMAIN g : p \notin DOMAIN f \/ g[p] # f[p]}

\* C7: a step of the extraction creates or writes no file or directory
\* outside the staging directory of its restore, whatever the entry is named.
C7_ExtractionStaysInStaging ==
  [][\A r \in Restores :
       (rs[r].pc = "extracting" /\ StepOf(r))
       => \A p \in Written(fs, fs') : IsPrefix(rs[r].staging, p)]_vars

\* an archive with a ".." entry and one with an absolute entry were extracted
C7_Witness ==
  \E r, o \in Restores :
    /\ rs[r].upload = DotDotArchive /\ rs[r].pc = "done"
    /\ rs[o].upload = AbsoluteArchive /\ rs[o].pc = "done"

\* The live store an archive holds: its data/boxes.db with its -wal replayed
ArchiveFiles(entries) ==
  [p \in {entries[k].name : k \in 1..Len(entries)} |->
     entries[CHOOSE k \in 1..Len(entries) : entries[k].name = p].data]

\* C9: the store captured by a finished backup is a committed state the live
\* store had at some instant during that backup.
C9_ConsistentSnapshot ==
  \A b \in Backups :
    (bk[b].pc = "done" /\ IsDatabase(ArchiveFiles(bk[b].archive)))
    => Recover(ArchiveFiles(bk[b].archive)) \in bk[b].seen

\* C10: a backup queues and reads files only after its checkpoint succeeded
C10_CheckpointBeforeArchiving ==
  \A b \in Backups : bk[b].pc \in {"streaming", "done"} => bk[b].ckpt = "ok"

\* r has answered success to the upload of the archive a backup produced; the
\* store answered queries when that backup began, nothing has written to the
\* live store or the uploads tree since, and no other restore ran during r
RoundTrip(r) ==
  LET b == rs[r].upload.of
  IN /\ rs[r].pc = "done" /\ rs[r].status = 200
     /\ b # 0 /\ bk[b].clean /\ bk[b].snap.usable
     /\ rs[r].alone

\* C3: when a restore of the archive a backup produced answers success, with
\* no write and no other restore since the backup began, the store serves
\* exactly the records it served when the backup began and every attachment
\* file of that moment is in the uploads tree with its content.
C3_RoundTripIdentity ==
  [][\A r \in Restores :
       (rs[r].pc = "respond" /\ RoundTrip(r)')
       => LET snap == bk[rs[r].upload.of].snap
          IN /\ conn'.usable
             /\ StoreState' = snap.state
             /\ \A p \in DOMAIN snap.files :
                  Exists(fs', p) /\ fs'[p] = snap.files[p]]_vars

\* a round trip of a store that was written to and holds an attachment
C3_Witness ==
  \E r \in Restores :
    /\ RoundTrip(r)
    /\ bk[rs[r].upload.of].snap.files # <<>>
    /\ bk[rs[r].upload.of].snap.state.boxes # {"b1"}
    /\ "reconnect" \in Range(rs[r].steps)
\* C11: a backup requested when data/boxes.db does not exist is not answered
\* with a completed archive and success.
C11_MissingStoreFailsBackup ==
  \A b \in Backups :
    (bk[b].pc = "done" /\ ~bk[b].snap.hasDb) => bk[b].status # 200
\* the step is one of backup request b
BackupStepOf(b) ==
  bk[b].pc # bk'[b].pc \/ Len(bk[b].queue) # Len(bk'[b].queue)

\* C12: no step of a backup changes the records the store serves or any file
\* or directory of the uploads tree; the checkpoint loses no committed data.
C12_BackupNonDestructive ==
  [][\A b \in Backups :
       BackupStepOf(b)
       => /\ conn'.usable = conn.usable
          /\ StoreState' = StoreState
          /\ Restrict(fs', Under(fs', UploadsPath)) = Restrict(fs, Under(fs, UploadsPath))]_vars

\* every backup has finished, one of them after a checkpoint that merged the
\* journal into the main file
C12_Witness ==
  /\ \A b \in Backups : bk[b].pc = "done"
  /\ \E b \in Backups : bk[b].ckpt = "ok"
  /\ fs[DbPath].v # EmptyPages
  /\ nWrites > 0
\* restore o was answered with an error raised by the extraction or by the
\* validation of the metadata
FailedBeforeReplace(o) ==
  /\ rs[o].pc = "done" /\ rs[o].status = 500
  /\ rs[o].steps[Len(rs[o].steps)] \in {"extract-failed", "validate-failed"}

\* restore r, of a valid archive, ran with no other restore in progress (so
\* before or after any other) and has ended, answered or not
Retried(r) ==
  /\ rs[r].upload = ValidArchive
  /\ rs[r].alone
  /\ rs[r].pc \in {"done", "crashed"}
  /\ \E o \in Restores \ {r} : FailedBeforeReplace(o)

\* C13: the steps of a restore up to the validation of the metadata, its
\* failure included, change neither the live database files, nor the
\* connection, nor the uploads tree outside temp; and a restore of a valid
\* archive that runs alone beside such a failed restore answers success.
C13_FailureBeforeReplaceIsHarmless ==
  [][/\ \A r \in Restores :
          (StepOf(r) /\ rs[r].pc \in {"idle", "extracting", "validate"})
          => /\ LiveDbFiles(fs') = LiveDbFiles(fs)
             /\ AttachmentTree(fs') = AttachmentTree(fs)
             /\ conn' = conn /\ orphan' = orphan
     /\ \A r \in Restores : Retried(r)' => rs'[r].status = 200]_vars

\* restore r was answered with an error raised by the replacement of the
\* database files, the reconnect or the replacement of the uploads tree
FailedInReplace(r) ==
  /\ rs[r].pc = "done" /\ rs[r].status = 500
  /\ rs[r].steps[Len(rs[r].steps)]
       \in {"replaceDb-failed", "reconnect-failed", "replaceUploads-failed"}

\* what the caller is told: the status and the fixed part of the message (on
\* an error the text of the exception follows it)
Outcome(r) ==
  [status |-> rs[r].status,
   message |-> CASE rs[r].status = 200 -> "Restore completed successfully. Please refresh the page to see restored data."
                 [] rs[r].status = 400 -> "No backup file uploaded"
                 [] rs[r].status = 500 -> "Restore failed: "
                 [] OTHER -> ""]

\* C14: a restore that failed before the replacement and one that failed in
\* or after it are answered with distinct outcomes.
C14_OutcomeTellsWhereItFailed ==
  \A o, r \in Restores :
    (FailedBeforeReplace(o) /\ FailedInReplace(r)) => Outcome(o) # Outcome(r)

\* the step is the reconnect of restore r on a file that is a database
ReconnectStep(r) ==
  rs[r].pc = "reconnect" /\ rs'[r].pc = "replaceUploads"

\* C15: the reconnect of a restore adds no record to what the replaced
\* database files hold (none at all when they hold no box), and no later step
\* other than a restore's replacement changes what the store serves.
C15_ReconnectNeverSeeds ==
  [][/\ \A r \in Restores :
          ReconnectStep(r)
          => /\ StoreState' = Recover(fs)
             /\ Recover(fs).boxes = {} => StoreState' = EmptyPages
     /\ (\A r \in Restores : ~StepOf(r)) => StoreState' = StoreState]_vars

\* a restore of the archive of an empty store has answered success and the
\* store serves no box and no item
C15_Witness ==
  \E r \in Restores :
    /\ rs[r].pc = "done" /\ rs[r].status = 200
    /\ rs[r].upload = EmptyStoreArchive
    /\ "reconnect" \in Range(rs[r].steps)
    /\ conn.usable /\ StoreState = EmptyPages

\* a restore has reconnected and no restore stands between the removal of the
\* live database files and its own reconnect
AfterReconnect ==
  /\ \E r \in Restores : "reconnect" \in Range(rs[r].steps)
  /\ \A o \in Restores : rs[o].pc # "reconnect"

C17_OversizedUploadRejected ==
  [][\A r \in Restores :
       (rs'[r].upload.size > FileSizeLimit /\ rs[r].pc = "idle" /\ rs'[r].pc # "idle")
       => /\ rs'[r].pc = "done" /\ rs'[r].status \notin {0, 200}
          /\ rs'[r].staging = <<>> /\ rs'[r].idx = 0
          /\ rs'[r].steps = <<"upload-rejected">>
          /\ fs' = fs /\ conn' = conn /\ orphan' = orphan]_vars

\* an oversized upload was turned away after the restore of the same archive
\* within the limit had succeeded
C17_Witness ==
  \E r, o \in Restores :
    /\ rs[r].upload = OversizedArchive /\ rs[r].pc = "done"
    /\ rs[r].steps = <<"upload-rejected">>
    /\ o < r /\ rs[o].upload = ValidArchive /\ rs[o].status = 200

\* The tree an archive holds: its entries extracted into an empty directory
RECURSIVE ExtractInto(_, _)
ExtractInto(f, entries) ==
  IF entries = <<>> THEN f
  ELSE ExtractInto(ExtractEntry(f, <<>>, Head(entries)), Tail(entries))

HasUploadsTree(a) == IsDirectory(ExtractInto(<<>>, a.entries), UploadsPath)
ArchivedAttachmentTree(a) == AttachmentTree(ExtractInto(<<>>, a.entries))

\* C18: the replacement of the uploads tree by a restore whose archive holds
\* an uploads tree keeps the uploads directory and every path under
\* uploads/temp, and when such a restore answers success the live uploads
\* tree outside temp is exactly the archive's uploads tree outside temp.
C18_UploadsTreeReplaced ==
  [][\A r \in Restores :
       /\ (rs[r].pc = "replaceUploads" /\ StepOf(r) /\ HasUploadsTree(rs[r].upload))
          => /\ IsDirectory(fs', UploadsPath)
             /\ Under(fs, TempDir) \subseteq Under(fs', TempDir)
       /\ (rs[r].pc = "respond" /\ rs'[r].status = 200 /\ HasUploadsTree(rs[r].upload))
          => AttachmentTree(fs') = ArchivedAttachmentTree(rs[r].upload)]_vars

C20_CascadeDelete ==
  [][\A b \in BoxIds :
       (nWrites' = nWrites + 1 /\ b \in StoreState.boxes /\ b \notin StoreState'.boxes)
       => /\ \A it \in StoreState'.items : it.boxId # b
          /\ StoreState'.items = {it \in StoreState.items : it.boxId # b}
          /\ StoreState'.boxes = StoreState.boxes \ {b}]_vars

\* the first box of a store with an item in each of two boxes was deleted:
\* the second box and its item are what the store serves
C20_Witness ==
  /\ \E r \in Restores : rs[r].upload = TwoBoxArchive /\ rs[r].status = 200
  /\ nWrites = 1
  /\ StoreState = [boxes |-> {"b2"}, items |-> {Item("i2", "b2", NoReceipt)}]

\* a box is stored at the location with this id
InUse(s, id) == \E b \in s.boxes : b.location = Get(s.locations, id).name

\* C21: a DELETE /api/locations/:id for a location that a box is stored at is
\* answered with an error and leaves the location in the store.
C21_LocationInUseNotDeleted ==
  [][\A id \in Ids(store.locations) :
       (DeleteLocations(id) /\ InUse(store, id))
       => /\ store'.status >= 400
          /\ id \in Ids(store'.locations)]_vars

\* the tables of the store, and a table in which no two records share an id
Tables == {"boxes", "items", "locations"}
UniqueIds(rows) == Cardinality(Ids(rows)) = Cardinality(rows)
\* a request that updates a record (PUT of a box, an item or a location; the
\* receipt upload and delete are updates of an item's receiptFilename)
UpdateRequest ==
  \/ \E id \in BoxRefs, body \in BoxBodies : PutBoxes(id, body)
  \/ \E id \in ItemRefs, body \in ItemUpdates : PutItems(id, body)
  \/ \E id \in LocationRefs, body \in LocationBodies : PutLocations(id, body)
\* a request that creates a record
CreateRequest ==
  \/ \E body \in BoxBodies : PostBoxes(body)
  \/ \E body \in ItemBodies : PostItems(body)
  \/ \E body \in LocationBodies : PostLocations(body)

\* C22: identifiers are immutable and unique: an update request (whatever its
\* body carries) leaves the ids of every table as they were, a create request
\* adds at most one record whose id no record of the table had, and after every
\* request no two records of a table share an id.
C22_IdsImmutableAndUnique ==
  [][/\ UpdateRequest =>
          \A t \in Tables : /\ Ids(store'[t]) = Ids(store[t])
                            /\ Cardinality(store'[t]) = Cardinality(store[t])
     /\ CreateRequest =>
          \A t \in Tables : /\ store[t] \subseteq store'[t]
                            /\ Cardinality(store'[t] \ store[t]) <= 1
                            /\ Ids(store'[t] \ store[t]) \cap Ids(store[t]) = {}
     /\ \A t \in Tables : UniqueIds(store'[t])]_vars
\* a sample box and a sample item have been updated, one by a body that names
\* another id, and both are still found under their ids
C22_Witness ==
  /\ \E b \in store.boxes : b.id \in Ids(SampleBoxes) /\ b \notin SampleBoxes
  /\ \E i \in store.items : i.id \in Ids(SampleItems) /\ i \notin SampleItems
  /\ Ids(SampleItems) \subseteq Ids(store.items)
  /\ store.requests = MaxRequests

\* a request whose handler calls logActivity once
LoggedRequest ==
  /\ store.kind = "sqlite"
  /\ store'.status \in {200, 201}
  /\ ~ \E id \in ItemRefs : DeleteItems(id) \/ \E body \in ItemUpdates : PutItems(id, body)

\* C23: the ActivityLog is append-only: across CRUD requests every log record
\* that was in the store stays in it unchanged, and a handler that calls
\* logActivity adds exactly one record, whose id no record had.
C23_ActivityLogAppendOnly ==
  [][/\ store.logs \subseteq store'.logs
     /\ Ids(store'.logs \ store.logs) \cap Ids(store.logs) = {}
     /\ UniqueIds(store'.logs)
     /\ Cardinality(store'.logs \ store.logs) = IF LoggedRequest THEN 1 ELSE 0]_vars
\* three requests were logged, two of them about the same record
C23_Witness ==
  /\ Cardinality(store.logs) = MaxRequests
  /\ \E x, y \in store.logs : x # y /\ x.entityId = y.entityId

\* C24: sample data is created on the first run only: a later process start
\* on an existing store, whatever the user left in it, inserts no record and
\* fails no insert.
C24_SampleDataOnFirstRunOnly ==
  [][Restart => /\ \A t \in Tables : store'[t] = store[t]
                /\ store'.start = "kept"]_vars

\* C25: two restore requests whose extractions overlap extract into distinct
\* staging directories.
C25_StagingIsPrivate ==
  \A r, o \in Restores :
    (r # o /\ rs[r].pc = "extracting" /\ rs[o].pc = "extracting")
    => rs[r].staging # rs[o].staging

\* C26: no accepted restore request is left without a response: when writing
\* an entry into the staging directory fails, the request is answered, even
\* when it is the only request the server has received.
C26_FailedExtractionIsAnswered ==
  \A r \in Restores :
    (rs[r].pc = "crashed" /\ \A o \in Restores \ {r} : rs[o].pc = "idle")
    => rs[r].status # 0

\* C27: a step of a restore removes an entry of the live attachment tree only
\* after that restore has replaced the live database files.
C27_StoreReplacedBeforeTreeCleared ==
  [][\A r \in Restores :
       (StepOf(r) /\ \E p \in DOMAIN AttachmentTree(fs) : p \notin DOMAIN fs')
       => "replaceDb" \in Range(rs[r].steps)]_vars

\* C28: referential integrity of items: after every request the boxId of every
\* stored item is the id of a stored box.
C28_NoOrphanItem ==
  \A i \in store.items : i.boxId \in Ids(store.boxes)

\* the part of the restore handler after the extraction
SyncPhase == {"validate", "replaceDb", "reconnect", "replaceUploads", "cleanup", "respond"}

\* C29: from the end of its extraction until its response a restore runs
\* without yielding: while it is there, no step of another restore, of a backup
\* or of a CRUD request is taken, so none of them sees the live files
\* half-replaced; they interleave with it during the extraction only.
C29_ReplacementRunsWithoutYielding ==
  [][\A r \in Restores :
       rs[r].pc \in SyncPhase
       => /\ running = r
          /\ \A o \in Restores \ {r} : rs'[o] = rs[o]
          /\ \A b \in Backups : <<bk'[b].pc, bk'[b].queue>> = <<bk[b].pc, bk[b].queue>>
          /\ nWrites' = nWrites
          /\ now' = now]_vars
\* a restore has replaced the database files and not yet the attachment tree,
\* while another restore is in its extraction, a backup has files left to read
\* and a CRUD request could still be served
C29_Witness ==
  \E r, o \in Restores :
    /\ rs[r].pc = "replaceUploads" /\ "replaceDb" \in Range(rs[r].steps)
    /\ rs[o].pc = "extracting"
    /\ \E b \in Backups : bk[b].pc = "streaming" /\ bk[b].queue # <<>>
    /\ nWrites < MaxWrites

\* the sum of a field over a set of records
RECURSIVE SumOf(_, _)
SumOf(rows, field) ==
  IF rows = {} THEN 0
  ELSE LET x == CHOOSE y \in rows : TRUE IN x[field] + SumOf(rows \ {x}, field)

\* C30: after every request getStats agrees with getBoxes: totalBoxes is the
\* number of boxes returned, totalItems the sum of their itemCount and
\* itemsWithReceipts the sum of their withReceipts.
C30_StatsAgree ==
  /\ getStats(store).totalBoxes = Cardinality(getBoxes(store))
  /\ getStats(store).totalItems = SumOf(getBoxes(store), "itemCount")
  /\ getStats(store).itemsWithReceipts = SumOf(getBoxes(store), "withReceipts")

====
